---- MODULE Spec2Model ----
(***************************************************************************)
(* Model of the hantei request handler of WOZ-tax/hantei-app.              *)
(*                                                                         *)
(* The repository holds two versions of the handler:                       *)
(*   "api"  : src/api/hantei.js      (the function served at /api/hantei)  *)
(*   "part" : src/unnamed/part_000   (the version with escaping, length    *)
(*            limit, clamping and a top-level try/catch)                   *)
(* Variable impl says which of the two serves the request.  One behaviour  *)
(* of Spec is one request: the handler runs from its entry to its first    *)
(* await, and then from each await (one call of callApi) to the next.      *)
(*                                                                         *)
(* Japanese string literals of the source are written as ASCII names:      *)
(*   risk levels  "high" = 高, "medium" = 中, "low" = 低, "other" = any    *)
(*                other value (also a missing field)                       *)
(*   verdicts     "sansei" = 開示に賛成 (favor), "chuuritsu" = 中立        *)
(*                (neutral), "hantai" = 開示に反対 (oppose)                *)
(* A text is a sequence of tokens; each token stands for a run of          *)
(* characters of known length (see TokenLen).                              *)
(***************************************************************************)
EXTENDS Integers, Sequences, FiniteSets, TLC

VARIABLES
    impl,               \* which source file handles the request
    method,             \* req.method
    apiKey,             \* process.env.GEMINI_API_KEY is set
    body,               \* req.body
    pc,                 \* position of the handler
    calls,              \* outbound calls issued so far (their prompts), in order
    returned,           \* what each call that returned gave: "err", "null", "obj"
    aiResult,           \* result of callApi(riskAnalysisPrompt)
    adjustments,        \* let adjustments, after the fallback
    comments,           \* let comments, after the fallback
    primary,            \* bengo/houmu/oneePrimaryScore
    score,              \* bengoScore, houmuScore, oneeScore
    hanteiFlags,        \* hanteiFlags
    gougiScore2,        \* 2 * gougiScore (the source counts in halves)
    responses,          \* responses sent with res.status(..).json(..)
    hs1, hs2, hp, hv1, hv2, hpc   \* the getHantei harness (SpecHantei)

reqVars == <<impl, method, apiKey, body>>
runVars == <<pc, calls, returned, aiResult, adjustments, comments,
             primary, score, hanteiFlags, gougiScore2, responses>>
hVars == <<hs1, hs2, hp, hv1, hv2, hpc>>
vars == <<reqVars, runVars, hVars>>

-----------------------------------------------------------------------------
(* Bounds and program constants *)

MaxAdj == 12
Margin == 4
MaxTextLen == 1000
ScoreMin == 0
ScoreMax == 10

Impls == {"api", "part"}
Personas == {"bengo", "houmu", "onee"}

-----------------------------------------------------------------------------
(* Texts *)

Keywords == <<"korosu", "shine", "ihou", "baka", "tousan">>
KeywordSet == {Keywords[i] : i \in 1..Len(Keywords)}
Tokens == KeywordSet \cup {"sp", "a", "A", "pad"}

TokenLen(t) ==
    CASE t = "sp" -> 1
      [] t = "a" -> 1
      [] t = "A" -> 1
      [] t = "pad" -> MaxTextLen - 2
      [] OTHER -> 2

RECURSIVE StrLength(_)
StrLength(s) == IF s = <<>> THEN 0 ELSE TokenLen(Head(s)) + StrLength(Tail(s))

RECURSIVE TrimStart(_)
TrimStart(s) == IF s # <<>> /\ Head(s) = "sp" THEN TrimStart(Tail(s)) ELSE s

RECURSIVE TrimEnd(_)
TrimEnd(s) ==
    IF s # <<>> /\ s[Len(s)] = "sp" THEN TrimEnd(SubSeq(s, 1, Len(s) - 1)) ELSE s

Trim(s) == TrimEnd(TrimStart(s))

ToLowerCase(s) == [i \in 1..Len(s) |-> IF s[i] = "A" THEN "a" ELSE s[i]]

RegexTest(word, s) == \E i \in 1..Len(s) : s[i] = word

-----------------------------------------------------------------------------
(* Request inputs *)

Undefined == [type |-> "undefined", num |-> 0, str |-> <<>>]
Num(n) == [type |-> "number", num |-> n, str |-> <<>>]
Str(s) == [type |-> "string", num |-> 0, str |-> s]

\* one text per subset of the five keyword rules, keywords in a fixed order
KeywordStrings ==
    {SelectSeq(Keywords, LAMBDA k : k \in S) : S \in SUBSET KeywordSet}

\* whitespace-only texts, plain texts, texts at and over the length limit
EdgeStrings ==
    { <<"sp">>, <<"sp", "sp">>, <<"a">>, <<"sp", "A", "sp">>,
      <<"pad", "shine">>, <<"pad", "shine", "a">> }

Strings == KeywordStrings \cup EdgeStrings

TweetValues == {Undefined, Num(0), Num(5)} \cup {Str(s) : s \in Strings}

NoBody == [present |-> FALSE, tweetText |-> Undefined]
Bodies == {NoBody} \cup {[present |-> TRUE, tweetText |-> v] : v \in TweetValues}

\* JavaScript truthiness of a tweetText value
Truthy(v) ==
    CASE v.type = "undefined" -> FALSE
      [] v.type = "number" -> v.num # 0
      [] OTHER -> v.str # <<>>

-----------------------------------------------------------------------------
(* callApi *)

FetchOutcomes ==
    {"throws", "not_ok", "no_text", "bad_json", "json_null", "json_object"}

RiskLevels == {"high", "medium", "low", "other"}
AdjVals == {-MaxAdj, -1, 0, MaxAdj}

RiskObjects ==
    [legal_risk : RiskLevels, corporate_risk : RiskLevels,
     emotional_discomfort : RiskLevels]
NoRisk ==
    [legal_risk |-> "other", corporate_risk |-> "other",
     emotional_discomfort |-> "other"]

\* a missing adjustment field reads as undefined, which `|| 0` turns into 0
AdjObjects == [bengo_adjust : AdjVals, houmu_adjust : AdjVals, onee_adjust : AdjVals]
ZeroAdj == [bengo_adjust |-> 0, houmu_adjust |-> 0, onee_adjust |-> 0]

Plain(t) == [form |-> "plain", text |-> t]
Paren(t) == [form |-> "paren", text |-> t]
\* a missing comment field reads as undefined, which `|| ""` turns into ""
NoComments ==
    [bengo_comment |-> Plain(""), houmu_comment |-> Plain(""),
     onee_comment |-> Plain("")]
ComObjects ==
    { [bengo_comment |-> Plain("ai bengo"), houmu_comment |-> Plain("ai houmu"),
       onee_comment |-> Plain("ai onee")] }

ErrTransport == "ERR_TRANSPORT"   \* AIとの通信でエラーが発生しました (コード: ..)
ErrBlocked == "ERR_BLOCKED"       \* AIが応答をブロックしました: ..
ErrParse == "ERR_PARSE"           \* AIの応答の解析に失敗しました。
ErrFatal == "ERR_FATAL"           \* API通信で致命的なエラーが発生しました。
ApiErrors == {ErrTransport, ErrBlocked, ErrParse, ErrFatal}

ErrObj(e, none) == [tag |-> "err", error |-> e, val |-> none]
NullObj(none) == [tag |-> "null", error |-> "", val |-> none]
JsonObj(v) == [tag |-> "obj", error |-> "", val |-> v]
NotCalled(none) == [tag |-> "none", error |-> "", val |-> none]

\* What callApi returns for an outcome of fetch; payload is the object the
\* model's JSON text parses to, none the object with every field missing.
callApi(i, fetched, payload, none) ==
    CASE fetched = "throws" -> ErrObj(ErrFatal, none)
      [] fetched = "not_ok" -> ErrObj(ErrTransport, none)
      [] fetched = "no_text" -> ErrObj(ErrBlocked, none)
      [] fetched = "bad_json" ->
            IF i = "part" THEN ErrObj(ErrParse, none) ELSE ErrObj(ErrFatal, none)
      [] fetched = "json_null" -> NullObj(none)
      [] OTHER -> JsonObj(payload)

-----------------------------------------------------------------------------
(* Scoring and verdicts *)

\* riskToScore with the values of medium and low exchanged
riskToScore_Swapped(level) ==
    CASE level = "high" -> 4
      [] level = "medium" -> 1
      [] level = "low" -> 2
      [] OTHER -> 1

riskToScore(level) ==
    CASE level = "high" -> 4
      [] level = "medium" -> 2
      [] level = "low" -> 1
      [] OTHER -> 1          \* riskToScore[..] is undefined, `|| 1`

BaseScores(ai) ==
    [bengo |-> riskToScore(ai.legal_risk),
     houmu |-> riskToScore(ai.corporate_risk),
     onee |-> riskToScore(ai.emotional_discomfort)]

\* rule 1 adding to the legal and emotional scores instead of setting them
Rule1_Additive(p, text) ==
    IF RegexTest("korosu", text)
    THEN [bengo |-> p.bengo + 9, onee |-> p.onee + 10, houmu |-> p.houmu + 4]
    ELSE p

\* /殺す|刺す|めった刺し|放火/
Rule1(p, text) ==
    IF RegexTest("korosu", text)
    THEN [bengo |-> 9, onee |-> 10, houmu |-> p.houmu + 4]
    ELSE p

\* /死ね|生きる価値|犯罪者/
Rule2(p, text) ==
    IF RegexTest("shine", text)
    THEN [bengo |-> p.bengo + 4, onee |-> p.onee + 5, houmu |-> p.houmu + 2]
    ELSE p

\* /違法|逮捕|前科|横領/
Rule3(p, text) ==
    IF RegexTest("ihou", text)
    THEN [bengo |-> p.bengo + 3, onee |-> p.onee, houmu |-> p.houmu + 3]
    ELSE p

\* /バカ|アホ|無能|キモい|頭が悪い|ブス|デブ|ハゲ|醜い|チビ/
Rule4(p, text) ==
    IF RegexTest("baka", text)
    THEN [bengo |-> p.bengo + 2, onee |-> p.onee + 3, houmu |-> p.houmu]
    ELSE p

\* /倒産|ブラック企業|隠蔽|パワハラ|セクハラ/
Rule5(p, text) ==
    IF RegexTest("tousan", text)
    THEN [bengo |-> p.bengo + 2, onee |-> p.onee, houmu |-> p.houmu + 4]
    ELSE p

\* if (aiResult.emotional_discomfort === "高")
Rule6(p, ai) ==
    IF ai.emotional_discomfort = "high"
    THEN [bengo |-> p.bengo, onee |-> p.onee + 2, houmu |-> p.houmu]
    ELSE p

\* the text the rules are tested on
RuleText(i, s) == IF i = "part" THEN ToLowerCase(s) ELSE s

\* bengo/houmu/oneePrimaryScore after the six rules, in the order of the source
PrimaryScores(i, ai, s) ==
    Rule6(Rule5(Rule4(Rule3(Rule2(Rule1(BaseScores(ai), RuleText(i, s)),
        RuleText(i, s)), RuleText(i, s)), RuleText(i, s)), RuleText(i, s)), ai)

Min2(a, b) == IF a < b THEN a ELSE b
Max2(a, b) == IF a > b THEN a ELSE b

clamp(value, min, max) == Max2(min, Min2(max, value))

\* part_000 clamps the adjusted score, api/hantei.js does not
FinalScore(i, value) == IF i = "part" THEN clamp(value, ScoreMin, ScoreMax) ELSE value

FinalScores(i, p, adj) ==
    [bengo |-> FinalScore(i, p.bengo + adj.bengo_adjust),
     houmu |-> FinalScore(i, p.houmu + adj.houmu_adjust),
     onee |-> FinalScore(i, p.onee + adj.onee_adjust)]

\* getHantei comparing with == where the source compares with >=
getHantei_Equal(sc, sansei, chuuritsu) ==
    IF sc = sansei THEN "sansei"
    ELSE IF sc >= chuuritsu THEN "chuuritsu"
    ELSE "hantai"

getHantei(sc, sansei, chuuritsu) ==
    IF sc >= sansei THEN "sansei"
    ELSE IF sc >= chuuritsu THEN "chuuritsu"
    ELSE "hantai"

Sansei(persona) == 5
\* the three personas sharing the neutral threshold 3
Chuuritsu_Same(persona) == 3

Chuuritsu(persona) == IF persona = "houmu" THEN 4 ELSE 3

HanteiFlags(sc) ==
    [p \in Personas |-> getHantei(sc[p], Sansei(p), Chuuritsu(p))]

NoScores == [p \in Personas |-> 0]
NoFlags == [p \in Personas |-> "none"]

\* twice the gougiScore of the source (favor 1, neutral 0.5, oppose 0)
Points2(hantei) ==
    CASE hantei = "sansei" -> 2
      [] hantei = "chuuritsu" -> 1
      [] OTHER -> 0

GougiScore2(flags) == Points2(flags.bengo) + Points2(flags.houmu) + Points2(flags.onee)

GougiDai == "GOUGI_DAI"            \* 開示の可能性 大！
GougiWare == "GOUGI_WARE"          \* 開示の可能性あり (意見割れ)
GougiMiokuri == "GOUGI_MIOKURI"    \* 見送り (開示は困難)
GougiBousou == "BENGO_BOUSOU"      \* 弁護士暴走！開示請求すべき！

\* gougiResult and gougiClass by the sum alone
PlainGougi(g2) ==
    IF g2 >= 4 THEN <<GougiDai, "gougi-kettei">>
    ELSE IF g2 >= 2 THEN <<GougiWare, "gougi-ware">>
    ELSE <<GougiMiokuri, "gougi-miokuri">>

\* the override with > 7 where the source has >= 7
Override_Strict(bengoScore, g2) == bengoScore > 7 /\ g2 < 4

Override(bengoScore, g2) == bengoScore >= 7 /\ g2 < 4

Gougi(bengoScore, g2) ==
    IF Override(bengoScore, g2) THEN <<GougiBousou, "gougi-kettei">>
    ELSE PlainGougi(g2)

getPrefix(hantei, persona) ==
    IF hantei = "sansei"
    THEN (IF persona = "onee" THEN "PREFIX_SANSEI_YO" ELSE "PREFIX_SANSEI")
    ELSE IF hantei = "chuuritsu"
    THEN (CASE persona = "bengo" -> "PREFIX_CHUURITSU_KENTOU"
            [] persona = "houmu" -> "PREFIX_CHUURITSU_KANSHI"
            [] OTHER -> "PREFIX_DOCCHITOMO")
    ELSE (IF persona = "onee" THEN "PREFIX_HANTAI_YO" ELSE "PREFIX_HANTAI")

FallbackText == "FALLBACK_GENERIC"  \* 技術的な問題により、詳細なコメントを生成できませんでした。

\* the comments used when callApi(commentPrompt) returned an error
FallbackComments(i, e) ==
    IF i = "part"
    THEN [bengo_comment |-> Plain(FallbackText), houmu_comment |-> Plain(FallbackText),
          onee_comment |-> Plain(FallbackText)]
    ELSE [bengo_comment |-> Paren(e), houmu_comment |-> Paren("DOUJOU"),
          onee_comment |-> Paren("DOUJOU")]

-----------------------------------------------------------------------------
(* Responses *)

NoDisplay == <<"", Plain("")>>

ErrorBody(e) ==
    [error |-> e, gougi |-> "", gougiClass |-> "",
     bengo |-> NoDisplay, houmu |-> NoDisplay, onee |-> NoDisplay]

\* finalResponse; a display string is <<prefix, comment>>
FinalBody(flags, sc, g2, com) ==
    [error |-> "",
     gougi |-> Gougi(sc.bengo, g2)[1],
     gougiClass |-> Gougi(sc.bengo, g2)[2],
     bengo |-> <<getPrefix(flags.bengo, "bengo"), com.bengo_comment>>,
     houmu |-> <<getPrefix(flags.houmu, "houmu"), com.houmu_comment>>,
     onee |-> <<getPrefix(flags.onee, "onee"), com.onee_comment>>]

Response(st, b) == [status |-> st, body |-> b]

ErrMethod == "Method Not Allowed"
ErrNoKey == "ERR_NO_API_KEY"      \* APIキーがサーバーに設定されていません。
ErrNoText == "ERR_NO_TEXT"        \* 判定するテキストがありません。
ErrTooLong == "ERR_TOO_LONG"      \* テキストが長すぎます（最大1000文字）。
ErrServer == "ERR_SERVER"         \* サーバーエラーが発生しました。

\* if (!tweetText || typeof tweetText !== 'string' || tweetText.trim() === '')
NoText(v) == ~Truthy(v) \/ v.type # "string" \/ Trim(v.str) = <<>>

\* if (tweetText.length > 1000), in part_000 only
TooLong(i, v) == i = "part" /\ StrLength(v.str) > MaxTextLen

\* an exception outside callApi: part_000 catches it at the top level and
\* answers 500, api/hantei.js has no handler and the request ends unanswered
Thrown(i) ==
    IF i = "part"
    THEN /\ pc' = "done"
         /\ responses' = Append(responses, Response(500, ErrorBody(ErrServer)))
    ELSE /\ pc' = "crashed"
         /\ UNCHANGED responses

Reply(st, b) ==
    /\ pc' = "done"
    /\ responses' = Append(responses, Response(st, b))

-----------------------------------------------------------------------------
(* The handler *)

Init ==
    /\ impl \in Impls
    /\ method \in {"GET", "POST"}
    /\ apiKey \in BOOLEAN
    /\ body \in Bodies
    /\ pc = "start"
    /\ calls = <<>>
    /\ returned = <<>>
    /\ aiResult = NotCalled(NoRisk)
    /\ adjustments = ZeroAdj
    /\ comments = NoComments
    /\ primary = NoScores
    /\ score = NoScores
    /\ hanteiFlags = NoFlags
    /\ gougiScore2 = 0
    /\ responses = <<>>
    /\ hs1 = 0 /\ hs2 = 0 /\ hp = "bengo" /\ hv1 = "none" /\ hv2 = "none"
    /\ hpc = "off"

\* from the entry of the handler to the first await
Start ==
    /\ pc = "start"
    /\ UNCHANGED <<reqVars, hVars, returned, aiResult, adjustments, comments,
                   primary, score, hanteiFlags, gougiScore2>>
    /\ IF method # "POST"
       THEN Reply(405, ErrorBody(ErrMethod)) /\ UNCHANGED calls
       ELSE IF ~apiKey
       THEN Reply(500, ErrorBody(ErrNoKey)) /\ UNCHANGED calls
       ELSE IF ~body.present          \* const { tweetText } = req.body throws
       THEN Thrown(impl) /\ UNCHANGED calls
       ELSE IF NoText(body.tweetText)
       THEN Reply(400, ErrorBody(ErrNoText)) /\ UNCHANGED calls
       ELSE IF TooLong(impl, body.tweetText)
       THEN Reply(400, ErrorBody(ErrTooLong)) /\ UNCHANGED calls
       ELSE /\ calls' = Append(calls, "risk")
            /\ pc' = "await1"
            /\ UNCHANGED responses

\* a handler that carries on after a failed risk-analysis call
RiskReturns_NoAbort ==
    /\ pc = "await1"
    /\ \E f \in FetchOutcomes, payload \in RiskObjects :
         aiResult' = callApi(impl, f, payload, NoRisk)
    /\ returned' = Append(returned, aiResult'.tag)
    /\ UNCHANGED <<reqVars, hVars, adjustments, comments,
                   primary, score, hanteiFlags, gougiScore2>>
    /\ IF aiResult'.tag = "null"
       THEN Thrown(impl) /\ UNCHANGED calls
       ELSE /\ calls' = Append(calls, "adjust")
            /\ pc' = "await2"
            /\ UNCHANGED responses

\* callApi(riskAnalysisPrompt) returns
RiskReturns ==
    /\ pc = "await1"
    /\ \E f \in FetchOutcomes, payload \in RiskObjects :
         aiResult' = callApi(impl, f, payload, NoRisk)
    /\ returned' = Append(returned, aiResult'.tag)
    /\ UNCHANGED <<reqVars, hVars, adjustments, comments,
                   primary, score, hanteiFlags, gougiScore2>>
    /\ IF aiResult'.tag = "null"      \* aiResult.error throws
       THEN Thrown(impl) /\ UNCHANGED calls
       ELSE IF aiResult'.tag = "err"
       THEN Reply(500, ErrorBody(aiResult'.error)) /\ UNCHANGED calls
       ELSE /\ calls' = Append(calls, "adjust")
            /\ pc' = "await2"
            /\ UNCHANGED responses

\* callApi(adjustmentPrompt) returns; scoring and verdicts up to the next await
AdjustReturns ==
    /\ pc = "await2"
    /\ UNCHANGED <<reqVars, hVars, aiResult, comments, gougiScore2>>
    /\ \E f \in FetchOutcomes, payload \in AdjObjects :
         LET ret == callApi(impl, f, payload, ZeroAdj) IN
         /\ returned' = Append(returned, ret.tag)
         /\ IF ret.tag = "null"       \* adjustments.error throws
            THEN /\ Thrown(impl)
                 /\ UNCHANGED <<calls, adjustments, primary, score, hanteiFlags>>
            ELSE /\ adjustments' = IF ret.tag = "err" THEN ZeroAdj ELSE ret.val
                 /\ primary' = PrimaryScores(impl, aiResult.val, body.tweetText.str)
                 /\ score' = FinalScores(impl, primary', adjustments')
                 /\ hanteiFlags' = HanteiFlags(score')
                 /\ calls' = Append(calls, "comment")
                 /\ pc' = "await3"
                 /\ UNCHANGED responses

\* callApi(commentPrompt) returns; the collective result and the response
CommentReturns ==
    /\ pc = "await3"
    /\ UNCHANGED <<reqVars, hVars, calls, aiResult, adjustments,
                   primary, score, hanteiFlags>>
    /\ \E f \in FetchOutcomes, payload \in ComObjects :
         LET ret == callApi(impl, f, payload, NoComments) IN
         /\ returned' = Append(returned, ret.tag)
         /\ IF ret.tag = "null"       \* comments.error throws
            THEN Thrown(impl) /\ UNCHANGED <<comments, gougiScore2>>
            ELSE /\ comments' = IF ret.tag = "err"
                                THEN FallbackComments(impl, ret.error)
                                ELSE ret.val
                 /\ gougiScore2' = GougiScore2(hanteiFlags)
                 /\ Reply(200, FinalBody(hanteiFlags, score, gougiScore2', comments'))

Next == Start \/ RiskReturns \/ AdjustReturns \/ CommentReturns

Spec == Init /\ [][Next]_vars

-----------------------------------------------------------------------------
(* getHantei on its own: two scores of one persona, each given its verdict *)

HScores == (ScoreMin - Margin)..(ScoreMax + Margin)

InitHantei ==
    /\ impl = "part" /\ method = "POST" /\ apiKey = TRUE /\ body = NoBody
    /\ pc = "off"
    /\ calls = <<>>
    /\ returned = <<>>
    /\ aiResult = NotCalled(NoRisk)
    /\ adjustments = ZeroAdj
    /\ comments = NoComments
    /\ primary = NoScores
    /\ score = NoScores
    /\ hanteiFlags = NoFlags
    /\ gougiScore2 = 0
    /\ responses = <<>>
    /\ hs1 \in HScores /\ hs2 \in HScores /\ hp \in Personas
    /\ hv1 = "none" /\ hv2 = "none"
    /\ hpc = "ready"

HanteiApply ==
    /\ hpc = "ready"
    /\ hv1' = getHantei(hs1, Sansei(hp), Chuuritsu(hp))
    /\ hv2' = getHantei(hs2, Sansei(hp), Chuuritsu(hp))
    /\ hpc' = "applied"
    /\ UNCHANGED <<reqVars, runVars, hs1, hs2, hp>>

NextHantei == HanteiApply

SpecHantei == InitHantei /\ [][NextHantei]_vars

-----------------------------------------------------------------------------
(* Properties *)

Ended == pc \in {"done", "crashed"}
Scored == Len(calls) = 3                \* the scores and verdicts are computed
Answered(st) == pc = "done" /\ Len(responses) = 1 /\ responses[1].status = st
TweetStr == body.tweetText.str
Fires(word) == RegexTest(word, TweetStr)
Delta(word, d) == IF Fires(word) THEN d ELSE 0
EmotionHigh == aiResult.val.emotional_discomfort = "high"

\* the request passed the method, key and body checks that precede validation
ReachesValidation == method = "POST" /\ apiKey /\ body.present

\* C1: once the first call succeeded and the scores are computed, each of the
\* three persona scores is an integer in [0, 10].
C1_ScoresInRange ==
    Scored => \A p \in Personas : score[p] \in 0..10

\* text absent, not a string, empty or whitespace-only, or over 1000 characters
InvalidText(v) ==
    \/ v.type # "string"
    \/ \A k \in 1..Len(v.str) : v.str[k] = "sp"
    \/ StrLength(v.str) > 1000

\* C2: a POST request with an invalid text ends with a 400 response and no
\* outbound call is issued for it.
C2_InvalidInputRejected ==
    (ReachesValidation /\ InvalidText(body.tweetText) /\ pc # "start")
        => (Answered(400) /\ calls = <<>>)

IsPrefix(a, b) == Len(a) <= Len(b) /\ a = SubSeq(b, 1, Len(a))

\* C3: the calls are issued in the order risk, adjust, comment, each at most
\* once and each only after the one before returned; the adjustment call only
\* after the risk call returned a non-error result; a failed risk call ends the
\* request with a 500 response carrying that failure and no further call.
C3_CallOrder ==
    /\ IsPrefix(calls, <<"risk", "adjust", "comment">>)
    /\ Len(calls) <= Len(returned) + 1
    /\ Len(calls) >= 2 => returned[1] = "obj"
    /\ (Len(returned) >= 1 /\ returned[1] = "err") =>
          /\ calls = <<"risk">>
          /\ aiResult.error \in ApiErrors
          /\ Answered(500)
          /\ responses[1].body = ErrorBody(aiResult.error)

C3_Witness ==
    /\ returned = <<"err">> /\ aiResult.error = ErrBlocked
    /\ pc = "done" /\ calls = <<"risk">>

\* C4: after a successful first call, a failed second and/or third call still
\* ends in a 200 response; a failed second call leaves the scores those of zero
\* adjustments, a failed third call makes every display string the verdict
\* prefix followed by the generic fallback commentary.
C4_GracefulDegradation ==
    (/\ Ended /\ Len(returned) = 3
     /\ returned[2] \in {"err", "obj"} /\ returned[3] \in {"err", "obj"})
        => /\ Answered(200)
           /\ returned[2] = "err" => score = FinalScores(impl, primary, ZeroAdj)
           /\ returned[3] = "err" =>
                \A p \in Personas :
                    responses[1].body[p]
                        = <<getPrefix(hanteiFlags[p], p), Plain(FallbackText)>>

\* an exception was raised outside callApi
Raised == ReachesValidation /\ (~body.present \/ \E k \in 1..Len(returned) : returned[k] = "null")

\* C5: every request that ended has exactly one response, and one in which an
\* unexpected exception was raised has the generic 500 response.
C5_AlwaysAnswered ==
    Ended => /\ Len(responses) = 1
             /\ Raised => responses[1] = Response(500, ErrorBody(ErrServer))

\* the collective sum of the claim, doubled: favor 2, neutral 1, oppose 0
ClaimSum2 ==
    LET pts(h) == IF h = "sansei" THEN 2 ELSE IF h = "chuuritsu" THEN 1 ELSE 0
    IN pts(hanteiFlags.bengo) + pts(hanteiFlags.houmu) + pts(hanteiFlags.onee)

\* C6: in a success response the collective result is the override label, with
\* class gougi-kettei, exactly when the legal score is >= 7 and the sum is < 2;
\* otherwise it is the label of the sum (>= 2, >= 1, below 1).
C6_Override ==
    Answered(200) =>
        LET r == responses[1].body
            fires == score.bengo >= 7 /\ ClaimSum2 < 4
        IN /\ r.gougi = GougiBousou <=> fires
           /\ fires => r.gougiClass = "gougi-kettei"
           /\ ~fires =>
                <<r.gougi, r.gougiClass>> =
                    IF ClaimSum2 >= 4 THEN <<GougiDai, "gougi-kettei">>
                    ELSE IF ClaimSum2 >= 2 THEN <<GougiWare, "gougi-ware">>
                    ELSE <<GougiMiokuri, "gougi-miokuri">>

C6_Witness ==
    /\ Answered(200) /\ score.bengo = 7 /\ ClaimSum2 < 4
    /\ responses[1].body.gougi = GougiBousou

\* C7 as claimed: whenever rule 1 fires the pre-adjustment legal score is 9 and
\* the pre-adjustment emotional score is 10, whatever other rules fire.
C7_Original ==
    (Scored /\ Fires("korosu")) => (primary.bengo = 9 /\ primary.onee = 10)

\* C7 amended: whenever rule 1 fires the pre-adjustment legal score is 9 plus
\* the legal deltas of the rules 2-5 that fire and the pre-adjustment emotional
\* score is 10 plus the emotional deltas of the rules 2, 4 and 6 that fire,
\* whatever the base scores of the risk levels.
C7_Rule1Overwrites ==
    (Scored /\ Fires("korosu")) =>
        /\ primary.bengo = 9 + Delta("shine", 4) + Delta("ihou", 3)
                             + Delta("baka", 2) + Delta("tousan", 2)
        /\ primary.onee = 10 + Delta("shine", 5) + Delta("baka", 3)
                             + (IF EmotionHigh THEN 2 ELSE 0)

C7_Witness ==
    /\ Scored /\ Fires("korosu") /\ Fires("shine") /\ ~Fires("baka")
    /\ aiResult.val.legal_risk = "high" /\ EmotionHigh
    /\ primary.bengo = 13 /\ primary.onee = 17

\* the base mapping of the claim
ClaimBase(level) ==
    IF level = "high" THEN 4 ELSE IF level = "medium" THEN 2 ELSE 1

NoKeyword == \A k \in KeywordSet : ~Fires(k)

\* C8 as claimed: with zero adjustments and none of the rules 1-5 firing, each
\* final score is the base mapping of its risk level, emotional_discomfort =
\* high included.
C8_Original ==
    (Scored /\ adjustments = ZeroAdj /\ NoKeyword) =>
        /\ score.bengo = ClaimBase(aiResult.val.legal_risk)
        /\ score.houmu = ClaimBase(aiResult.val.corporate_risk)
        /\ score.onee = ClaimBase(aiResult.val.emotional_discomfort)

\* C8 amended: with zero adjustments and none of the rules 1-5 firing, the
\* legal and corporate scores are the base mapping of their risk levels, and so
\* is the emotional score unless emotional_discomfort is high, when it is 6.
C8_BaseMapping ==
    (Scored /\ adjustments = ZeroAdj /\ NoKeyword) =>
        /\ score.bengo = ClaimBase(aiResult.val.legal_risk)
        /\ score.houmu = ClaimBase(aiResult.val.corporate_risk)
        /\ score.onee = IF EmotionHigh THEN 6
                        ELSE ClaimBase(aiResult.val.emotional_discomfort)

C8_Witness ==
    /\ Scored /\ adjustments = ZeroAdj /\ NoKeyword /\ EmotionHigh
    /\ aiResult.val.legal_risk = "medium" /\ aiResult.val.corporate_risk = "other"
    /\ score = [bengo |-> 2, houmu |-> 1, onee |-> 6]

Rank(h) == IF h = "sansei" THEN 2 ELSE IF h = "chuuritsu" THEN 1 ELSE 0

\* C9: for every persona and scores s <= s', the verdict of s' is not below the
\* verdict of s in the order oppose < neutral < favor.
C9_Monotonic ==
    (hpc = "applied" /\ hs1 <= hs2) => Rank(hv1) <= Rank(hv2)

C9_Witness ==
    /\ hpc = "applied" /\ hp = "houmu" /\ hs1 = 4 /\ hs2 = 5
    /\ hv1 = "chuuritsu" /\ hv2 = "sansei"

\* C10: when only rule 2 fires, the three risk levels are low and the
\* adjustments are 0, the scores are legal 5, emotional 6, corporate 3 and the
\* verdicts legal favor, emotional favor, corporate oppose.
C10_DeathWishScenario ==
    (/\ Scored /\ Fires("shine")
     /\ \A k \in KeywordSet \ {"shine"} : ~Fires(k)
     /\ aiResult.val = [legal_risk |-> "low", corporate_risk |-> "low",
                        emotional_discomfort |-> "low"]
     /\ adjustments = ZeroAdj)
        => /\ score = [bengo |-> 5, onee |-> 6, houmu |-> 3]
           /\ hanteiFlags = [bengo |-> "sansei", onee |-> "sansei",
                             houmu |-> "hantai"]

C10_Witness ==
    /\ Answered(200) /\ TweetStr = <<"shine">>
    /\ aiResult.val = [legal_risk |-> "low", corporate_risk |-> "low",
                       emotional_discomfort |-> "low"]
    /\ adjustments = ZeroAdj /\ returned = <<"obj", "obj", "obj">>
    /\ score.houmu = 3 /\ hanteiFlags.houmu = "hantai"

====
